---- MODULE Spec2Model ----
(***************************************************************************)
(* A model of the SHARP experiment launcher (src/launcher):                *)
(*   - the backend chain that composes the final command(s)                *)
(*     (launch.py chain_of_commands, launcher.py Launcher.run_commands),   *)
(*   - the orchestrator loop and the repeater family                       *)
(*     (launch.py run_task, repeater.py),                                  *)
(*   - the option pipeline (options.py process_options).                   *)
(* Each of the three parts has its own specification over the same         *)
(* variables; a part that a specification does not exercise stays idle.    *)
(***************************************************************************)
EXTENDS Integers, Sequences, FiniteSets, TLC

\* ------------------------------------------------------------------------
\* Bounds of the model
\* ------------------------------------------------------------------------
MaxChain == 3       \* longest backend chain explored
MaxCopies == 3      \* largest multiprogramming level of a chain
MaxRunCopies == 2   \* largest multiprogramming level of an experiment run
MaxReps == 3        \* largest repetition count configured (repeats, min, max)
NumHosts == 2       \* hosts configured for every backend
MaxArgs == 3        \* most command-line flags given before the function name
MaxValues == 2      \* most values an extract command finds for a metric in one output

\* ------------------------------------------------------------------------
\* Variables
\* ------------------------------------------------------------------------
VARIABLES
    \* backend chain (chain_of_commands)
    chain,      \* launchers: sequence of backend names, outermost first
    copies,     \* options["copies"]: the copies argument of chain_of_commands, RunData.ncopies
    override,   \* the override argument ("" is the empty sequence)
    pcC,        \* position inside chain_of_commands
    idx,        \* index of the next middle launcher to wrap
    cmd,        \* the command composed so far (the local variable cmd)
    cmds,       \* the list chain_of_commands returns
    calls,      \* log of the run_commands calls: launcher index, copies asked, commands returned
    \* orchestrator (run_task) and repeater
    repeats,    \* options["repeats"]: an int or a string
    ropts,      \* options["repeater_options"]: min and max
    start,      \* options["start"]
    pcR,        \* position inside main / run_task
    failure,    \* what ended the program abnormally ("" if nothing did)
    rkind,      \* class of the repeater object
    rlimit,     \* CountRepeater._limit
    rcount,     \* Repeater._count
    runtimes,   \* CountRepeater._runtimes
    verdict,    \* outcome of the last repeater call
    pdata,      \* the RunData returned by the last Launcher.run
    nwarm,      \* warm-up runs done
    nresets,    \* rounds of backend resets done
    nruns,      \* main-loop runs done
    csv,        \* rows saved by log_run, in order
    mopts,      \* options["metrics"]: the names of the metrics, in order
    kids,       \* the children Launcher.run has waited for, in order, until log_run
    resets,     \* the launchers reset in the latest round of resets
    file,       \* the rows of the CSV file of the task
    omode,      \* options["mode"]
    alive,      \* the children of the latest Launcher.run that are still running
    \* repeater objects (repeater.py)
    dopts,      \* starting_sample and test_after of the Decision repeater, and
                \* max_gaussian_components * len(gaussian_covariances)
    subs,       \* DecisionRepeater.__repeaters: count and last_decision of each
    prev_means, \* whether BBRepeater.__prev_means holds means
    lib,        \* what the statistics libraries answered in the latest invocation
    fed,        \* the metric values of the RunData the repeater was invoked with, in order
    \* option pipeline (process_options)
    argv,       \* the command-line flags before the function name, in order
    func,       \* args.func: the function name and its arguments, once read
    sysspec,    \* the default sys-spec file process_json_options found ("" if none)
    cfg,        \* the dictionary cfg
    pcO,        \* position inside process_options
    fi,         \* index of the next -f file to merge
    ai,         \* index of the next backend of the auto-load loop
    blist,      \* the list the auto-load loop iterates
    loads,      \* log of the auto-load calls: name, whether it had options, file merged
    md,         \* lines of the markdown file the first experiment wrote
    orig,       \* the options of the first experiment
    pass        \* 1: the experiment, 2: its reproduction with --repro

chainVars == <<chain, override, pcC, idx, cmd, cmds, calls>>

runVars == <<repeats, ropts, start, pcR, failure, rkind, rlimit, rcount, runtimes,
             verdict, pdata, nwarm, nresets, nruns, csv, mopts, kids, resets, file, omode,
             alive>>

repVars == <<dopts, subs, prev_means, lib, fed>>

optVars == <<argv, func, sysspec, cfg, pcO, fi, ai, blist, loads, md, orig, pass>>

vars == <<chain, copies, override, pcC, idx, cmd, cmds, calls,
          repeats, ropts, start, pcR, failure, rkind, rlimit, rcount, runtimes,
          verdict, pdata, nwarm, nresets, nruns, csv, mopts, kids, resets, file, omode, alive,
          dopts, subs, prev_means, lib, fed,
          argv, func, sysspec, cfg, pcO, fi, ai, blist, loads, md, orig, pass>>

\* ------------------------------------------------------------------------
\* The state of a part that a specification leaves idle
\* ------------------------------------------------------------------------
\* RunData.perf without outer_time: the values of each metric ("auto" is a
\* key when the extraction of an auto metric fails); no values: no such key
PerfKeys == {"m1", "m2", "auto"}
NoPerf == [k \in PerfKeys |-> <<>>]

\* None, and the RunData Launcher.run makes (launcher.py:262)
NoData == [none |-> TRUE, outer |-> <<>>, perf |-> NoPerf]
FreshData == [none |-> FALSE, outer |-> <<>>, perf |-> NoPerf]

ChainIdle ==
    /\ chain = <<>>
    /\ override = <<>>
    /\ pcC = "idle"
    /\ idx = 0
    /\ cmd = <<>>
    /\ cmds = <<>>
    /\ calls = <<>>

RunIdle ==
    /\ repeats = [ty |-> "int", n |-> 1, s |-> <<>>]
    /\ ropts = [min |-> 0, max |-> 0]
    /\ start = "normal"
    /\ pcR = "idle"
    /\ failure = ""
    /\ rkind = ""
    /\ rlimit = 0
    /\ rcount = 0
    /\ runtimes = <<>>
    /\ verdict = ""
    /\ pdata = NoData
    /\ nwarm = 0
    /\ nresets = 0
    /\ nruns = 0
    /\ csv = <<>>
    /\ mopts = <<>>
    /\ kids = <<>>
    /\ resets = <<>>
    /\ file = <<>>
    /\ omode = "w"
    /\ alive = {}

\* the sub-repeaters of the Decision repeater (repeater.py:613-622)
SubKinds == {"SE", "CI", "HDI", "BB", "GMM"}

RepIdle ==
    /\ dopts = [starting_sample |-> 0, test_after |-> 1, grid |-> 32]
    /\ subs = [count |-> [k \in SubKinds |-> 0], last |-> [k \in SubKinds |-> "continue"]]
    /\ prev_means = FALSE
    /\ lib = [fit |-> "", bb |-> "", test |-> "", empty |-> "", branch |-> ""]
    /\ fed = <<>>

\* A dictionary of options keeps the keys task, function, backends and
\* backend_options.  Missing marks a key that is not in the dictionary and
\* None is Python's None.  backend_options maps a backend name to its
\* options, a dictionary with the keys run and reset.
Missing == "<missing>"
None == "<None>"

OptNames == {"local", "ssh", "mpi"}

NoEntry == [set |-> FALSE, run |-> Missing, reset |-> Missing]
Entry(run, reset) == [set |-> TRUE, run |-> run, reset |-> reset]

NoList == [set |-> FALSE, v |-> <<>>]
List(v) == [set |-> TRUE, v |-> v]

NoOpts == [n \in OptNames |-> NoEntry]
Opts(name, e) == [n \in OptNames |-> IF n = name THEN e ELSE NoEntry]

\* metrics maps a metric name to its properties
MetricNames == {"m1", "m2"}
NoMetrics == [m \in MetricNames |-> Missing]
Metric(name, properties) == [m \in MetricNames |-> IF m = name THEN properties ELSE Missing]

Dict(task, function, backends, backend_options) ==
    [task |-> task, function |-> function, backends |-> backends,
     backend_options |-> backend_options,
     metrics |-> NoMetrics, start |-> Missing, sys_spec_commands |-> Missing]

\* the dictionary d with the keys metrics, start and sys_spec_commands
With(d, mt, st, ssc) ==
    [d EXCEPT !.metrics = mt, !.start = st, !.sys_spec_commands = ssc]

EmptyCfg == Dict(Missing, Missing, NoList, NoOpts)

OptIdle ==
    /\ argv = <<>>
    /\ func = <<>>
    /\ sysspec = ""
    /\ cfg = EmptyCfg
    /\ pcO = "idle"
    /\ fi = 0
    /\ ai = 0
    /\ blist = <<>>
    /\ loads = <<>>
    /\ md = <<>>
    /\ orig = EmptyCfg
    /\ pass = 0

\* ------------------------------------------------------------------------
\* Command strings
\*
\* A command or template is a sequence of tokens.  A token is a record
\* [t, n]: t is the text class of the token and n its numeric payload
\* (the decimal number of an expanded $MPL, the index of an expanded host).
\* ------------------------------------------------------------------------
Tok(s) == [t |-> s, n |-> 0]
Num(k) == [t |-> "num", n |-> k]
HostTok(k) == [t |-> "host", n |-> k]
\* the macro $HOSTk of a template
HostMacro(k) == [t |-> "$HOSTk", n |-> k]

\* str.replace("$HOST", host): the text $HOST is also the start of every $HOSTk
RECURSIVE ReplaceHost(_, _)
ReplaceHost(s, host) ==
    IF s = <<>> THEN <<>>
    ELSE (IF Head(s) = Tok("$HOST") THEN <<host>>
          ELSE IF Head(s).t = "$HOSTk" THEN <<host, [t |-> "digit", n |-> Head(s).n]>>
          ELSE <<Head(s)>>) \o ReplaceHost(Tail(s), host)

\* the loop of launcher.py:333-334 over the hosts, from the i-th on:
\* str.replace("$HOSTi", host) (with fewer than ten hosts no $HOSTi starts
\* another)
RECURSIVE ReplaceHostIndex(_, _)
ReplaceHostIndex(s, i) ==
    IF i >= NumHosts THEN s
    ELSE ReplaceHostIndex([j \in 1..Len(s) |-> IF s[j] = HostMacro(i) THEN HostTok(i) ELSE s[j]],
                          i + 1)

\* str.replace(old, new) where old is one token and new a token sequence
RECURSIVE Replace(_, _, _)
Replace(s, old, new) ==
    IF s = <<>> THEN <<>>
    ELSE (IF Head(s) = old THEN new ELSE <<Head(s)>>) \o Replace(Tail(s), old, new)

\* the Python test "old in s"
Contains(s, old) == \E i \in 1..Len(s) : s[i] = old

\* number of tokens of s that satisfy the text class c
RECURSIVE CountClass(_, _)
CountClass(s, c) ==
    IF s = <<>> THEN 0
    ELSE (IF Head(s).t = c THEN 1 ELSE 0) + CountClass(Tail(s), c)

\* ------------------------------------------------------------------------
\* Backends: the run template of backend_options[<name>]["run"]
\* ------------------------------------------------------------------------
Backends == {"local", "bare", "ssh", "mpi", "par", "srun", "pin"}

RunTemplate(b) ==
    CASE b = "local" -> <<Tok("$CMD"), Tok("$ARGS")>>
      [] b = "bare"  -> <<Tok("$CMD")>>
      [] b = "ssh"   -> <<Tok("ssh"), Tok("$HOST"), Tok("$CMD"), Tok("$ARGS")>>
      [] b = "mpi"   -> <<Tok("mpirun"), Tok("-np"), Tok("$MPL"), Tok("$CMD"), Tok("$ARGS")>>
      [] b = "par"   -> <<Tok("par"), Tok("$MPL"), Tok("$CMD"), Tok("$ARGS")>>
      [] b = "srun"  -> <<Tok("srun"), Tok("$CMD")>>
      [] b = "pin"   -> <<Tok("ssh"), HostMacro(NumHosts - 1), Tok("$CMD"), Tok("$ARGS")>>

\* Launcher.__is_mpi_backend
is_mpi_backend(b) ==
    LET has_mpi_command == \E w \in {"mpirun", "mpiexec", "srun"} : Contains(RunTemplate(b), Tok(w))
        has_mpl_macro == Contains(RunTemplate(b), Tok("$MPL"))
    IN  has_mpi_command /\ has_mpl_macro

\* Launcher.handles_concurrency_internally
handles_concurrency_internally(b) == is_mpi_backend(b)

\* Launcher._find_exec: the resolved executable of the function
find_exec == <<Tok("exe")>>

\* the positional argument string self._args
ArgsText == <<Tok("args")>>

\* Launcher.__expand_macros
expand_macros(src, copy_index) ==
    LET r1 == Replace(src, Tok("$TASK"), <<Tok("task")>>)
        r2 == Replace(r1, Tok("$FN"), <<Tok("fn")>>)
        r3 == Replace(r2, Tok("$ARGS"), ArgsText)
        r4 == Replace(r3, Tok("$MPIFLAGS"), <<Tok("mpiflags")>>)
        r5 == Replace(r4, Tok("$TMP_PATH"), <<Tok("tmp")>>)
        r6 == IF \E i \in 1..Len(r5) : r5[i] = Tok("$HOST") \/ r5[i].t = "$HOSTk"
              THEN ReplaceHost(r5, HostTok(copy_index % NumHosts))
              ELSE r5
    IN  ReplaceHostIndex(r6, 0)

\* A variant of __build_base_command that leaves the $ARGS of an outer
\* backend in place.
build_base_command_keep_args(b, n, nested) ==
    IF nested # <<>>
    THEN LET c1 == Replace(RunTemplate(b), Tok("$CMD"), nested)
             c2 == IF is_mpi_backend(b) THEN Replace(c1, Tok("$MPL"), <<Num(n)>>) ELSE c1
         IN  c2
    ELSE LET c1 == Replace(RunTemplate(b), Tok("$CMD"), find_exec)
             c2 == Replace(c1, Tok("$MPL"), <<Num(n)>>)
         IN  IF ~Contains(RunTemplate(b), Tok("$ARGS")) THEN c2 \o ArgsText ELSE c2

\* A variant of __build_base_command that substitutes $MPL only for the
\* innermost backend.
build_base_command_inner_mpl(b, n, nested) ==
    IF nested # <<>>
    THEN LET c1 == Replace(RunTemplate(b), Tok("$CMD"), nested)
         IN  Replace(c1, Tok("$ARGS"), <<>>)
    ELSE LET c1 == Replace(RunTemplate(b), Tok("$CMD"), find_exec)
             c2 == Replace(c1, Tok("$MPL"), <<Num(n)>>)
         IN  IF ~Contains(RunTemplate(b), Tok("$ARGS")) THEN c2 \o ArgsText ELSE c2

\* Launcher.__build_base_command
build_base_command(b, n, nested) ==
    IF nested # <<>>
    THEN LET c1 == Replace(RunTemplate(b), Tok("$CMD"), nested)
             c2 == IF is_mpi_backend(b) THEN Replace(c1, Tok("$MPL"), <<Num(n)>>) ELSE c1
         IN  Replace(c2, Tok("$ARGS"), <<>>)
    ELSE LET c1 == Replace(RunTemplate(b), Tok("$CMD"), find_exec)
             c2 == Replace(c1, Tok("$MPL"), <<Num(n)>>)
         IN  IF ~Contains(RunTemplate(b), Tok("$ARGS")) THEN c2 \o ArgsText ELSE c2

\* Launcher.__build_mpi_command
build_mpi_command(b, n, nested) == expand_macros(build_base_command(b, n, nested), 0)

\* Launcher.__build_parallel_commands
build_parallel_commands(b, n, nested) ==
    [i \in 1..n |-> expand_macros(build_base_command(b, n, nested), i - 1)]

\* Launcher.run_commands
run_commands(b, n, nested) ==
    IF is_mpi_backend(b)
    THEN <<build_mpi_command(b, n, nested)>>
    ELSE build_parallel_commands(b, n, nested)

\* ------------------------------------------------------------------------
\* chain_of_commands, one action per stage
\* ------------------------------------------------------------------------
has_internal_concurrency(ls) == \E i \in 1..Len(ls) : handles_concurrency_internally(ls[i])

\* A variant of last_launcher_copies that hands the full count to any
\* innermost launcher.
last_launcher_copies_full(ls, n) == n

\* launch.py:111
last_launcher_copies(ls, n) ==
    IF handles_concurrency_internally(ls[Len(ls)]) THEN n ELSE 1

\* launch.py:116
middle_copies(l, n) == IF handles_concurrency_internally(l) THEN n ELSE 1

\* A variant of outer_copies that always asks the outermost launcher for one command.
outer_copies_one(ls, n) == 1

\* A variant of outer_copies that ignores the concurrency of the inner launchers.
outer_copies_all(ls, n) == n

\* launch.py:121-124
outer_copies(ls, n) ==
    IF handles_concurrency_internally(ls[1]) THEN n
    ELSE IF has_internal_concurrency(ls) THEN 1 ELSE n

Call(i, n, out) == [b |-> i, copies |-> n, n |-> Len(out)]

\* launch.py:103-104
ChainSingle ==
    /\ pcC = "start"
    /\ Len(chain) = 1
    /\ IF override # <<>>
       THEN /\ cmds' = <<override>>
            /\ calls' = calls
       ELSE LET out == run_commands(chain[1], copies, <<>>)
            IN  /\ cmds' = out
                /\ calls' = Append(calls, Call(1, copies, out))
    /\ pcC' = "done"
    /\ UNCHANGED <<chain, copies, override, idx, cmd, runVars, optVars, repVars>>

\* launch.py:106-112
ChainLast ==
    /\ pcC = "start"
    /\ Len(chain) > 1
    /\ LET k == Len(chain)
           n == last_launcher_copies(chain, copies)
       IN  IF override # <<>>
           THEN /\ cmd' = override
                /\ calls' = calls
           ELSE LET out == run_commands(chain[k], n, <<>>)
                IN  /\ cmd' = out[1]
                    /\ calls' = Append(calls, Call(k, n, out))
    /\ idx' = Len(chain) - 1
    /\ pcC' = IF Len(chain) > 2 THEN "middle" ELSE "outer"
    /\ UNCHANGED <<chain, copies, override, cmds, runVars, optVars, repVars>>

\* launch.py:115-117
ChainMiddle ==
    /\ pcC = "middle"
    /\ LET n == middle_copies(chain[idx], copies)
           out == run_commands(chain[idx], n, cmd)
       IN  /\ cmd' = out[1]
           /\ calls' = Append(calls, Call(idx, n, out))
    /\ idx' = idx - 1
    /\ pcC' = IF idx - 1 >= 2 THEN "middle" ELSE "outer"
    /\ UNCHANGED <<chain, copies, override, cmds, runVars, optVars, repVars>>

\* launch.py:119-126
ChainOuter ==
    /\ pcC = "outer"
    /\ LET n == outer_copies(chain, copies)
           out == run_commands(chain[1], n, cmd)
       IN  /\ cmds' = out
           /\ calls' = Append(calls, Call(1, n, out))
    /\ pcC' = "done"
    /\ UNCHANGED <<chain, copies, override, idx, cmd, runVars, optVars, repVars>>

Chains == UNION {[1..k -> Backends] : k \in 1..MaxChain}

\* the sys-spec command get_sys_specs passes as override
SpecCommand == <<Tok("spec")>>

\* run_task calls chain_of_commands(launchers, options["copies"]);
\* get_sys_specs calls chain_of_commands(launchers, 1, command).
ChainInit ==
    /\ chain \in Chains
    /\ \/ /\ override = <<>>
          /\ copies \in 1..MaxCopies
       \/ /\ override = SpecCommand
          /\ copies = 1
    /\ pcC = "start"
    /\ idx = 0
    /\ cmd = <<>>
    /\ cmds = <<>>
    /\ calls = <<>>
    /\ RunIdle
    /\ OptIdle
    /\ RepIdle

ChainNext == ChainSingle \/ ChainLast \/ ChainMiddle \/ ChainOuter

SpecChain == ChainInit /\ [][ChainNext]_vars

\* ------------------------------------------------------------------------
\* Properties of the backend chain
\* ------------------------------------------------------------------------
NoMpi(ls) == \A i \in 1..Len(ls) : ~is_mpi_backend(ls[i])
MpiPositions(ls) == {i \in 1..Len(ls) : is_mpi_backend(ls[i])}
ExactlyOneMpi(ls) == Cardinality(MpiPositions(ls)) = 1
TaskRun == override = <<>>

\* C1: a chain without mpi-style backend yields exactly `copies` outermost
\* commands, whatever its length.
C1_NoMpiEmitsCopies ==
    (pcC = "done" /\ NoMpi(chain)) => Len(cmds) = copies

C1_Witness ==
    /\ pcC = "done" /\ NoMpi(chain) /\ TaskRun
    /\ Len(chain) = MaxChain /\ copies >= 2 /\ Len(cmds) = copies

\* C2 as stated: with exactly one mpi-style backend at position m, one
\* outermost command if m = 1 and `copies` commands otherwise.
C2_Original ==
    (pcC = "done" /\ ExactlyOneMpi(chain)) =>
        Len(cmds) = (IF is_mpi_backend(chain[1]) THEN 1 ELSE copies)

\* C2 amended: with exactly one mpi-style backend the chain yields exactly
\* one outermost command, wherever the mpi-style backend stands.
C2_OneMpiEmitsOne ==
    (pcC = "done" /\ ExactlyOneMpi(chain)) => Len(cmds) = 1

C2_Witness ==
    /\ pcC = "done" /\ ExactlyOneMpi(chain) /\ TaskRun
    /\ ~is_mpi_backend(chain[1]) /\ copies >= 2 /\ Len(cmds) = 1

\* C3: in a chain of two or more backends with an mpi-style backend, every
\* backend is asked once; each non-mpi-style backend is asked for one
\* command (and returns one), each mpi-style backend for the full count.
C3_ConcurrencyCountedOnce ==
    (pcC = "done" /\ Len(chain) >= 2 /\ ~NoMpi(chain)) =>
        /\ \A j \in 1..Len(calls) :
              IF is_mpi_backend(chain[calls[j].b])
              THEN calls[j].copies = copies
              ELSE calls[j].copies = 1 /\ calls[j].n = 1
        /\ TaskRun =>
              \A i \in 1..Len(chain) :
                  Cardinality({j \in 1..Len(calls) : calls[j].b = i}) = 1
        /\ ~is_mpi_backend(chain[1]) => Len(cmds) = 1

C3_Witness ==
    /\ pcC = "done" /\ Len(chain) = MaxChain /\ TaskRun /\ copies >= 2
    /\ ~is_mpi_backend(chain[1]) /\ ~is_mpi_backend(chain[Len(chain)])
    /\ is_mpi_backend(chain[2])
    /\ Len(calls) = Len(chain)

\* the $MPL tokens were all expanded, exactly one number stands in the
\* command and it is n
MplExpandedOnce(c, n) ==
    /\ CountClass(c, "$MPL") = 0
    /\ CountClass(c, "num") = 1
    /\ \A i \in 1..Len(c) : c[i].t = "num" => c[i].n = n

OnlyMpiUsesMpl(ls) ==
    \A i \in 1..Len(ls) :
        Contains(RunTemplate(ls[i]), Tok("$MPL")) => is_mpi_backend(ls[i])

C5_ArgsOnce ==
    (pcC = "done" /\ TaskRun) =>
        \A i \in 1..Len(cmds) :
            /\ CountClass(cmds[i], "args") = 1
            /\ CountClass(cmds[i], "$ARGS") = 0

C5_Witness ==
    /\ pcC = "done" /\ TaskRun /\ Len(chain) >= 2
    /\ \A i \in 1..Len(chain) : Contains(RunTemplate(chain[i]), Tok("$ARGS"))
    /\ CountClass(cmds[1], "args") = 1

\* ------------------------------------------------------------------------
\* Repeaters (repeater.py)
\* ------------------------------------------------------------------------
\* values a copy reports for the repeater's metric (outer_time)
Values == {10, 11}

RECURSIVE Sum(_)
Sum(q) == IF q = <<>> THEN 0 ELSE Head(q) + Sum(Tail(q))

RECURSIVE SumSq(_)
SumSq(q) == IF q = <<>> THEN 0 ELSE Head(q) * Head(q) + SumSq(Tail(q))

\* N * sum(x^2) - sum(x)^2 = N * (N - 1) * tstd(x)^2
Dev(q) == Len(q) * SumSq(q) - Sum(q) * Sum(q)

\* numpy.sort by insertion
RECURSIVE Insert(_, _)
Insert(q, x) ==
    IF q = <<>> THEN <<x>>
    ELSE IF x <= Head(q) THEN <<x>> \o q ELSE <<Head(q)>> \o Insert(Tail(q), x)

RECURSIVE Sort(_)
Sort(q) == IF q = <<>> THEN <<>> ELSE Insert(Sort(Tail(q)), Head(q))

\* thresholds and limits, in percent
SEThreshPct == 5
CIThreshPct == 5
HDIThreshPct == 10
HDILimitPct == 89

\* scipy.stats.t.ppf(0.95, df), times 100
TQ95 == <<631, 292, 235, 213, 202, 194, 189, 186, 183, 181, 180, 178, 177, 176, 175>>

\* SERepeater: rel_se > thresh, with se = tstd / sqrt(N) and
\* rel_se = se if mean == 0 else se / mean
SEAbove(q) ==
    LET N == Len(q)
        S == Sum(q)
    IN  IF S = 0 THEN 10000 * Dev(q) > SEThreshPct * SEThreshPct * N * N * (N - 1)
        ELSE IF S < 0 THEN FALSE
        ELSE 10000 * Dev(q) > SEThreshPct * SEThreshPct * S * S * (N - 1)

\* CIRepeater: rel_ci > thresh, with ci = t * tstd / sqrt(N) and
\* rel_ci = ci / mean, for a positive mean
CIAbove(q) ==
    LET N == Len(q)
        S == Sum(q)
        T == TQ95[N - 1]
    IN  T * T * Dev(q) > CIThreshPct * CIThreshPct * S * S * (N - 1)

\* arviz.hdi: the narrowest interval that holds floor(hdi_prob * n) steps
\* of the sorted sample; the pair <<hdi_min, hdi_max>>
Hdi(q) ==
    LET a == Sort(q)
        n == Len(a)
        inc == (HDILimitPct * n) \div 100
        n_intervals == n - inc
        width(i) == a[i + inc] - a[i]
        min_idx == CHOOSE i \in 1..n_intervals :
                       /\ \A j \in 1..n_intervals : width(i) <= width(j)
                       /\ \A j \in 1..(i - 1) : width(j) > width(i)
    IN  <<a[min_idx], a[min_idx + inc]>>

\* HDIRepeater: rel_hdi > thresh, with rel_hdi = 0 if mean == 0 else
\* (hdi[1] - hdi[0]) / mean
HDIAbove(q) ==
    LET N == Len(q)
        S == Sum(q)
        h == Hdi(q)
    IN  IF S = 0 THEN FALSE
        ELSE IF S > 0 THEN 100 * (h[2] - h[1]) * N > HDIThreshPct * S
        ELSE 100 * (h[2] - h[1]) * N < HDIThreshPct * S

\* Python's bool: True is "continue", False is "stop"
Verdict(b) == IF b THEN "continue" ELSE "stop"

\* A variant of CountRepeater.__call__ that runs one repetition too many.
CountVerdictOffByOne(c, limit) == Verdict(c <= limit)

\* CountRepeater.__call__: count < limit, the count already incremented
CountVerdict(c, limit) == Verdict(c < limit)

\* SERepeater.__call__; rel_se is bound only if count > 1
SEVerdict(c, q, mn, mx) ==
    IF c >= mx THEN "stop"
    ELSE IF c <= mn THEN "continue"
    ELSE IF c > 1 THEN Verdict(SEAbove(q))
    ELSE "raise"

\* CIRepeater.__call__; rel_ci is bound only if count > 1
CIVerdict(c, q, mn, mx) ==
    IF c >= mx THEN "stop"
    ELSE IF c < mn THEN "continue"
    ELSE IF c > 1 THEN Verdict(CIAbove(q))
    ELSE "raise"

\* HDIRepeater.__call__; rel_hdi is bound only if count > 1
HDIVerdict(c, q, mn, mx) ==
    IF c >= mx THEN "stop"
    ELSE IF c <= mn THEN "continue"
    ELSE IF c > 1 THEN Verdict(HDIAbove(q))
    ELSE "raise"

\* str.isdigit and int() on a string given as a sequence of characters
Digits == <<"0", "1", "2", "3", "4", "5", "6", "7", "8", "9">>
IsDigit(c) == \E d \in 1..10 : Digits[d] = c
DigitVal(c) == (CHOOSE d \in 1..10 : Digits[d] = c) - 1
isdigit(str) == str # <<>> /\ \A i \in 1..Len(str) : IsDigit(str[i])

RECURSIVE int(_)
int(str) ==
    IF str = <<>> THEN 0
    ELSE 10 * int(SubSeq(str, 1, Len(str) - 1)) + DigitVal(str[Len(str)])

IntOpt(k) == [ty |-> "int", n |-> k, s |-> <<>>]
StrOpt(str) == [ty |-> "str", n |-> 0, s |-> str]

RepeaterNames == {<<"M", "A", "X">>, <<"S", "E">>, <<"C", "I">>, <<"H", "D", "I">>}

\* the class repeater_factory instantiates for options["repeats"]
FactoryKind(opt) ==
    IF opt.ty = "int" THEN "Count"
    ELSE IF isdigit(opt.s) THEN "Count"
    ELSE IF opt.s = <<"M", "A", "X">> THEN "Count"
    ELSE IF opt.s = <<"S", "E">> THEN "SE"
    ELSE IF opt.s = <<"C", "I">> THEN "CI"
    ELSE IF opt.s = <<"H", "D", "I">> THEN "HDI"
    ELSE IF opt.s = <<"B", "B">> THEN "BB"
    ELSE IF opt.s = <<"G", "M", "M">> THEN "GMM"
    ELSE IF opt.s = <<"D", "C">> THEN "Decision"
    ELSE IF opt.s = <<"K", "S">> THEN "KS"
    ELSE "unrecognized"

\* repeater_options["max"] after repeater_factory
FactoryMax(opt, ro) ==
    IF opt.ty = "int" THEN opt.n
    ELSE IF isdigit(opt.s) THEN int(opt.s)
    ELSE ro.max

\* ------------------------------------------------------------------------
\* The commands of the task
\* ------------------------------------------------------------------------
RunUnchangedChain == UNCHANGED <<chain, override, pcC, idx, cmd, cmds, calls, optVars, repVars>>
RunUnchangedFile == RunUnchangedChain /\ UNCHANGED <<file, omode>>
RunUnchangedKids == RunUnchangedFile /\ UNCHANGED alive

\* launch.py:83-126 as one function: the commands run_task hands to
\* launchers[0].run
RECURSIVE WrapMiddle(_, _, _, _)
WrapMiddle(ls, i, n, c) ==
    IF i < 2 THEN c
    ELSE WrapMiddle(ls, i - 1, n, run_commands(ls[i], middle_copies(ls[i], n), c)[1])

chain_of_commands(ls, n) ==
    IF Len(ls) = 1 THEN run_commands(ls[1], n, <<>>)
    ELSE LET last == run_commands(ls[Len(ls)], last_launcher_copies(ls, n), <<>>)[1]
         IN  run_commands(ls[1], outer_copies(ls, n), WrapMiddle(ls, Len(ls) - 1, n, last))

\* ------------------------------------------------------------------------
\* Launcher.run: the children, the metrics of each, and the RunData
\* ------------------------------------------------------------------------
\* What a child does: its exit status when it is awaited ("notfound" is
\* status 127, "fail" another non-zero status, "timeout" the wait that
\* expires and kills it), whether the timeout of the run has passed once the
\* child is done (late), the clock when its rows are added (t), and what the
\* extract commands find in its output: n[name] values for a metric name
\* (0: the extraction fails), and the lines of an auto metric, each the name
\* it starts with or "bad" for a line of fewer than two columns (no line:
\* the extraction fails).  The experiments with metrics are explored with
\* one reading of the clock.
StatusLate ==
    {<<"ok", FALSE>>, <<"ok", TRUE>>, <<"fail", FALSE>>, <<"notfound", FALSE>>,
     <<"timeout", TRUE>>}
NativeNames == {"m1", "m2"}

Children(mo) ==
    LET Configured(m) == \E i \in 1..Len(mo) : mo[i] = m
        NativeOutputs ==
            {n \in [NativeNames -> 0..MaxValues] :
                \A m \in NativeNames : ~Configured(m) => n[m] = 0}
        AutoOutputs ==
            IF Configured("auto")
            THEN UNION {[1..k -> NativeNames \cup {"bad"}] : k \in 0..MaxValues}
            ELSE {<<>>}
        Clock == IF mo = <<>> THEN Values ELSE {10}
    IN  {[st |-> x[1], late |-> x[2], fin |-> ft[1], t |-> ft[2], n |-> n, auto |-> a] :
            x \in StatusLate, ft \in {y \in Clock \X Clock : y[1] <= y[2]},
            n \in NativeOutputs, a \in AutoOutputs}

\* what Launcher.run has seen of a child it waited for: the status, whether
\* the timeout had passed, and the rows or the error of _get_metrics
Seen(ch, g) == [st |-> ch.st, late |-> ch.late, fin |-> ch.fin, err |-> g.err, rows |-> g.rows]

Repeat(v, n) == [i \in 1..n |-> v]

\* A variant of the status test in which status 127 is a failure like any other.
wait_never_raises(st) == FALSE

\* launcher.py:179-180: status 127 raises RuntimeError
wait_raises(st) == st = "notfound"

\* launcher.py:188-199: IndexError on a line of fewer than two columns
parse_auto_metrics(output) ==
    IF \E i \in 1..Len(output) : output[i] = "bad"
    THEN [err |-> "IndexError", m |-> NoPerf]
    ELSE [err |-> "",
          m |-> [k \in PerfKeys |->
                    Repeat("v", Cardinality({i \in 1..Len(output) : output[i] = k}))]]

\* launcher.py:224-241: the loop over the metrics options, from the i-th on
RECURSIVE ExtractFrom(_, _, _, _)
ExtractFrom(mo, i, ch, metrics) ==
    IF i > Len(mo) THEN [err |-> "", m |-> metrics]
    ELSE IF mo[i] # "auto"
    THEN ExtractFrom(mo, i + 1, ch,
             [metrics EXCEPT ![mo[i]] =
                 IF ch.n[mo[i]] = 0 THEN <<"NA">> ELSE Repeat("v", ch.n[mo[i]])])
    ELSE IF ch.auto = <<>>
    THEN ExtractFrom(mo, i + 1, ch, [metrics EXCEPT !["auto"] = <<"NA">>])
    ELSE LET mets == parse_auto_metrics(ch.auto)
         IN  IF mets.err # "" THEN mets
             ELSE ExtractFrom(mo, i + 1, ch,
                      [k \in PerfKeys |-> IF mets.m[k] # <<>> THEN mets.m[k] ELSE metrics[k]])

\* A variant of the row-count test that accepts any counts.
rows_differ_never(metrics) == FALSE

\* launcher.py:243: the metrics do not all have the same number of values
rows_differ(metrics) ==
    Cardinality({Len(metrics[k]) : k \in {x \in PerfKeys : metrics[x] # <<>>}}) # 1

\* Launcher._get_metrics: the rows of one child, or the error it raises
get_metrics(mo, ch) ==
    IF mo = <<>> THEN [err |-> "", rows |-> <<[k \in PerfKeys |-> Missing]>>]
    ELSE LET x == ExtractFrom(mo, 1, ch, NoPerf)
             keys == {k \in PerfKeys : x.m[k] # <<>>}
         IN  IF x.err # "" THEN [err |-> x.err, rows |-> <<>>]
             ELSE IF rows_differ(x.m) THEN [err |-> "rows", rows |-> <<>>]
             ELSE [err |-> "",
                   rows |-> [i \in 1..Len(x.m[CHOOSE k \in keys : TRUE]) |->
                               [k \in PerfKeys |->
                                   IF k \in keys /\ i <= Len(x.m[k]) THEN x.m[k][i]
                                   ELSE Missing]]]

\* RunData.add_run for each row of one child, at clock t
add_run(d, rows, t) ==
    [none |-> FALSE,
     outer |-> d.outer \o Repeat(t, Len(rows)),
     perf |-> [k \in PerfKeys |->
                  d.perf[k] \o SelectSeq([i \in 1..Len(rows) |-> rows[i][k]],
                                         LAMBDA v : v # Missing)]]

\* RunData.user_metrics
user_metrics(d) == {k \in PerfKeys : d.perf[k] # <<>>}

\* ------------------------------------------------------------------------
\* Launcher.reset
\* ------------------------------------------------------------------------
\* backend_options[<name>]["reset"]
ResetCmd(b) ==
    CASE b = "local" -> <<Tok("drop_caches")>>
      [] b = "ssh" -> <<Tok("ssh"), Tok("$HOST"), Tok("drop_caches")>>
      [] OTHER -> <<>>

\* A variant of the reset loop that resets the first launcher only.
reset_round_first_only(ls, failed) == <<ls[1]>>

\* launch.py:190-191: the launchers whose reset was called, when the reset
\* of the failed-th raises (0: none raises)
reset_round(ls, failed) == IF failed = 0 THEN ls ELSE SubSeq(ls, 1, failed)

\* ------------------------------------------------------------------------
\* main and run_task (launch.py), one action per step
\* ------------------------------------------------------------------------
\* A variant of the step after the factory that always warms up.
after_factory_always_warm(st) == "warm"

\* launch.py:184: the warm-up is made for a warm start only
after_factory(st) == IF st = "warm" THEN "warm" ELSE "top"

\* launch.py:216, repeater.py:893-927 and the repeater constructors
RepeaterFactory ==
    /\ pcR = "factory"
    /\ LET k == FactoryKind(repeats)
           mx == FactoryMax(repeats, ropts)
       IN  IF k = "unrecognized"
           THEN /\ pcR' = "aborted"
                /\ failure' = "factory"
                /\ UNCHANGED <<rkind, rlimit, ropts>>
           ELSE /\ rkind' = k
                /\ rlimit' = mx
                /\ ropts' = [ropts EXCEPT !.max = mx]
                /\ IF k # "Count" /\ ~(mx >= ropts.min)
                   THEN pcR' = "aborted" /\ failure' = "assert"
                   ELSE pcR' = after_factory(start) /\ failure' = failure
    /\ UNCHANGED <<repeats, start, rcount, runtimes, verdict, pdata, nwarm, nresets, nruns, csv,
                   copies, mopts, kids, resets>>
    /\ RunUnchangedKids

\* launch.py:184-185 and launcher.py:262-280: the warm-up starts its children
Warmup ==
    /\ pcR = "warm"
    /\ pcR' = "warming"
    /\ pdata' = FreshData
    /\ kids' = <<>>
    /\ alive' = 1..Len(cmds)
    /\ nwarm' = nwarm + 1
    /\ UNCHANGED <<repeats, ropts, start, failure, rkind, rlimit, rcount, runtimes, verdict,
                   nresets, nruns, csv, copies, mopts, resets>>
    /\ RunUnchangedFile

\* launch.py:189-191; launcher.py:98-115: a reset command that fails raises
\* for the local backend only
Reset ==
    /\ pcR = "top"
    /\ start = "cold"
    /\ \E failed \in 0..Len(chain) :
          /\ failed # 0 => (ResetCmd(chain[failed]) # <<>> /\ chain[failed] = "local")
          /\ resets' = reset_round(chain, failed)
          /\ IF failed = 0 THEN pcR' = "run" /\ failure' = failure
             ELSE pcR' = "aborted" /\ failure' = "reset"
    /\ nresets' = nresets + 1
    /\ UNCHANGED <<repeats, ropts, start, rkind, rlimit, rcount, runtimes, verdict, pdata,
                   nwarm, nruns, csv, copies, mopts, kids>>
    /\ RunUnchangedKids

\* launch.py:193 and launcher.py:262-280: a run of the main loop starts its children
Run ==
    /\ \/ pcR = "run"
       \/ pcR = "top" /\ start # "cold"
    /\ pcR' = "running"
    /\ pdata' = FreshData
    /\ kids' = <<>>
    /\ alive' = 1..Len(cmds)
    /\ nruns' = nruns + 1
    /\ UNCHANGED <<repeats, ropts, start, failure, rkind, rlimit, rcount, runtimes, verdict,
                   nwarm, nresets, csv, copies, mopts, resets>>
    /\ RunUnchangedFile

\* what run_task does with the result of Launcher.run: the warm-up drops
\* it (launch.py:185), the main loop aborts on None (launch.py:200-201)
Returned(warming, d) ==
    IF warming THEN [pc |-> "top", failure |-> "", data |-> NoData]
    ELSE IF d.none THEN [pc |-> "aborted", failure |-> "none", data |-> NoData]
    ELSE [pc |-> "log", failure |-> "", data |-> d]

\* launcher.py:283-291: one turn of the loop of Launcher.run, which waits
\* for the first child left, extracts its metrics and adds its rows; the
\* turn that ends the loop returns to run_task.  The wait ends when the child
\* has exited or was killed; of the children that were not waited for when
\* Launcher.run ends (launcher.py:294 neither waits for them nor kills them),
\* any may have exited by then.
Wait ==
    /\ pcR \in {"warming", "running"}
    /\ Len(kids) < Len(cmds)
    /\ \E ch \in Children(mopts) :
          /\ pdata.outer # <<>> => ch.t >= pdata.outer[Len(pdata.outer)]
          /\ IF wait_raises(ch.st)
             THEN /\ pcR' = "aborted" /\ failure' = "notfound" /\ pdata' = NoData
                  /\ kids' = Append(kids, Seen(ch, [err |-> "", rows |-> <<>>]))
                  /\ alive' \in SUBSET (alive \ {Len(kids) + 1})
             ELSE LET g == get_metrics(mopts, ch)
                      d == add_run(pdata, g.rows, ch.t)
                      last == Len(kids) + 1 = Len(cmds)
                      r == Returned(pcR = "warming",
                                    IF last THEN d ELSE NoData)
                  IN  /\ kids' = Append(kids, Seen(ch, g))
                      /\ IF g.err # ""
                         THEN /\ pcR' = "aborted" /\ failure' = "metrics" /\ pdata' = NoData
                              /\ alive' \in SUBSET (alive \ {Len(kids) + 1})
                         ELSE IF last \/ ch.late
                         THEN /\ pcR' = r.pc /\ failure' = r.failure /\ pdata' = r.data
                              /\ alive' \in SUBSET (alive \ {Len(kids) + 1})
                         ELSE /\ pcR' = pcR /\ failure' = failure /\ pdata' = d
                              /\ alive' = alive \ {Len(kids) + 1}
    /\ UNCHANGED <<repeats, ropts, start, rkind, rlimit, rcount, runtimes, verdict,
                   nwarm, nresets, nruns, csv, copies, mopts, resets>>
    /\ RunUnchangedFile

\* A variant of the test of the metric lists that finds none short.
short_metric_never(d) == FALSE

\* launch.py:70: get_metric(metric)[i] raises IndexError for a metric with
\* fewer values than there are rows
short_metric(d) == \E k \in user_metrics(d) : Len(d.perf[k]) < Len(d.outer)

\* the rows log_run saves for one RunData
LogRows(d, c, n) ==
    [i \in 1..Len(d.outer) |->
        [repeat |-> c, concurrency |-> n, rank |-> i - 1, outer_time |-> d.outer[i],
         m |-> [k \in PerfKeys |->
                   IF k \in user_metrics(d) /\ i <= Len(d.perf[k]) THEN d.perf[k][i]
                   ELSE Missing]]]

\* a row a former experiment left in the CSV file
OldRow == [repeat |-> 0, concurrency |-> 0, rank |-> 0, outer_time |-> 0,
           m |-> [k \in PerfKeys |-> Missing]]

\* Logger.save_csv: open(fn, mode) truncates the file for "w" and keeps it
\* for "a"; writerows adds the records at the end
save_csv_truncating(f, mode, rows) == rows
save_csv(f, mode, rows) == (IF mode = "w" THEN <<>> ELSE f) \o rows

\* launch.py:203 and 35-79; RunData.get_outer asserts that ncopies rows are
\* there, and get_metric(metric)[i] needs a value of every metric for every row
LogRun ==
    /\ pcR = "log"
    /\ IF Len(pdata.outer) < copies
       THEN csv' = csv /\ pcR' = "aborted" /\ failure' = "assert"
            /\ UNCHANGED <<file, omode>>
       ELSE IF short_metric(pdata)
       THEN csv' = csv /\ pcR' = "aborted" /\ failure' = "index"
            /\ UNCHANGED <<file, omode>>
       ELSE /\ csv' = csv \o LogRows(pdata, rcount, copies) /\ pcR' = "ask" /\ failure' = failure
            /\ file' = save_csv(file, omode, LogRows(pdata, rcount, copies))
            /\ omode' = "a"
    /\ kids' = <<>>
    /\ UNCHANGED <<repeats, ropts, start, rkind, rlimit, rcount, runtimes, verdict, pdata,
                   nwarm, nresets, nruns, copies, mopts, resets>>
    /\ RunUnchangedChain /\ UNCHANGED alive

\* launch.py:204-205: repeater(pdata)
Ask ==
    /\ pcR = "ask"
    /\ LET c == rcount + 1
           q == runtimes \o pdata.outer
           v == CASE rkind = "Count" -> CountVerdict(c, rlimit)
                  [] rkind = "SE" -> SEVerdict(c, q, ropts.min, ropts.max)
                  [] rkind = "CI" -> CIVerdict(c, q, ropts.min, ropts.max)
                  [] rkind = "HDI" -> HDIVerdict(c, q, ropts.min, ropts.max)
       IN  /\ rcount' = c
           /\ runtimes' = q
           /\ verdict' = v
           /\ IF v = "raise" THEN pcR' = "aborted" /\ failure' = "repeater"
              ELSE IF v = "continue" THEN pcR' = "top" /\ failure' = failure
              ELSE pcR' = "finish" /\ failure' = failure
    /\ UNCHANGED <<repeats, ropts, start, rkind, rlimit, pdata, nwarm, nresets, nruns, csv,
                   copies, mopts, kids, resets>>
    /\ RunUnchangedKids

\* launch.py:207
SaveMd ==
    /\ pcR = "finish"
    /\ pcR' = "done"
    /\ UNCHANGED <<repeats, ropts, start, failure, rkind, rlimit, rcount, runtimes, verdict,
                   pdata, nwarm, nresets, nruns, csv, copies, mopts, kids, resets>>
    /\ RunUnchangedKids

\* the values options["repeats"] takes in the model
RepeatsOptions ==
    {IntOpt(k) : k \in (0 - 1)..MaxReps}
    \cup {StrOpt(<<Digits[k + 1]>>) : k \in 0..MaxReps}
    \cup {StrOpt(<<"0", Digits[k + 1]>>) : k \in 0..MaxReps}
    \cup {StrOpt(str) : str \in RepeaterNames}

\* The experiments explored: every repeats option and every repeater on
\* the local backend without metrics; every chain with a count of
\* repetitions; every metrics option with one repetition.
RunInit ==
    /\ OptIdle
    /\ RepIdle
    /\ chain \in {<<"local">>, <<"ssh", "local">>, <<"local", "mpi">>}
    /\ copies \in 1..MaxRunCopies
    /\ override = <<>>
    /\ pcC = "done"
    /\ idx = 0
    /\ cmd = <<>>
    /\ cmds = chain_of_commands(chain, copies)
    /\ calls = <<>>
    /\ mopts \in {<<>>, <<"m1", "m2">>, <<"auto">>}
    /\ repeats \in RepeatsOptions
    /\ ropts \in [min : 0..MaxReps, max : 0..MaxReps]
    /\ (FactoryKind(repeats) = "Count" /\ repeats.s # <<"M", "A", "X">>) => ropts = [min |-> 0, max |-> 0]
    /\ repeats.s = <<"M", "A", "X">> => ropts.min = 0
    /\ start \in {"normal", "warm", "cold"}
    /\ chain # <<"local">> => repeats \in {IntOpt(k) : k \in 1..(MaxReps - 1)}
    /\ mopts # <<>> => repeats = IntOpt(1) /\ start = "normal" /\ Len(chain) = 1
    /\ pcR = "factory"
    /\ failure = ""
    /\ rkind = ""
    /\ rlimit = 0
    /\ rcount = 0
    /\ runtimes = <<>>
    /\ verdict = ""
    /\ pdata = NoData
    /\ nwarm = 0
    /\ nresets = 0
    /\ nruns = 0
    /\ csv = <<>>
    /\ kids = <<>>
    /\ resets = <<>>
    /\ alive = {}
    /\ file \in {<<>>, <<OldRow>>}
    /\ omode \in {"w", "a"}
    /\ (file # <<>> \/ omode # "w") =>
           (chain = <<"local">> /\ mopts = <<>> /\ start = "normal" /\ repeats.ty = "int")

RunNext == RepeaterFactory \/ Warmup \/ Reset \/ Run \/ Wait \/ LogRun \/ Ask \/ SaveMd

SpecRun == RunInit /\ [][RunNext]_vars

\* ------------------------------------------------------------------------
\* The repeater objects, invoked with one RunData after another
\* ------------------------------------------------------------------------
\* A repeater is invoked MaxReps + 1 times at most.
\* the values of the repeater's metric in one RunData
RepInputs == {<<10>>, <<12>>, <<12, 10>>}

KSThreshPct == 10
MeanThreshPct == 10
\* max_gaussian_components * len(gaussian_covariances) by default
DefaultGrid == 32

Min(a, b) == IF a <= b THEN a ELSE b

\* scipy.stats.ks_2samp(a, b).statistic > threshold: the largest distance
\* between the two empirical distribution functions
KSAbove(a, b) ==
    LET atmost(q, x) == Cardinality({i \in 1..Len(q) : q[i] <= x})
        diff(x) == atmost(a, x) * Len(b) - atmost(b, x) * Len(a)
        abs(x) == IF x < 0 THEN 0 - x ELSE x
    IN  \E i \in 1..Len(a \o b) :
            100 * abs(diff((a \o b)[i])) > KSThreshPct * Len(a) * Len(b)

\* KSRepeater.__call__ after CountRepeater.__call__ has added the values d to
\* the runtimes q: the verdict and the runtimes.  ks_2samp of an empty sample
\* raises ValueError or gives nan, by the version of the library (empty).
KSCall(c, q, d, mn, mx, empty) ==
    IF c < mn THEN [v |-> "continue", r |-> q]
    ELSE IF c >= mx THEN [v |-> "stop", r |-> q]
    ELSE LET r == q \o d
             h == c \div 2
         IN  IF h = 0 \/ h >= Len(r)
             THEN [v |-> IF empty = "raise" THEN "raise" ELSE "stop", r |-> r]
             ELSE [v |-> Verdict(KSAbove(SubSeq(r, 1, h), SubSeq(r, h + 1, Len(r)))), r |-> r]

\* GaussianMixtureRepeater.__call__; fit tells whether the absolute score of
\* the best estimator is at most goodness_threshold
GMMVerdict(c, mx, grid, fit) ==
    IF c <= Min(mx - 1, grid) THEN "continue"
    ELSE IF c >= mx THEN "stop"
    ELSE Verdict(fit = "good")

\* BBRepeater.__call__ for N runtimes: the verdict and whether __prev_means
\* holds means afterwards; bb tells whether a block size was found and
\* whether the bootstrapped means are close to the previous ones
BBCall(N, mn, mx, prev, bb) ==
    IF N >= mx THEN [v |-> "stop", prev |-> prev]
    ELSE IF N < mn THEN [v |-> "continue", prev |-> prev]
    ELSE IF bb = "noblock" THEN [v |-> "continue", prev |-> prev]
    ELSE [v |-> Verdict(~(prev /\ bb = "close")), prev |-> TRUE]

RECURSIVE Largest(_)
Largest(q) == IF Len(q) = 1 THEN q[1] ELSE LET m == Largest(Tail(q)) IN IF q[1] >= m THEN q[1] ELSE m
RECURSIVE Smallest(_)
Smallest(q) == IF Len(q) = 1 THEN q[1] ELSE LET m == Smallest(Tail(q)) IN IF q[1] <= m THEN q[1] ELSE m

\* DecisionRepeater._is_constant: max - min <= mean_threshold * mean
is_constant(q) == 100 * Len(q) * (Largest(q) - Smallest(q)) <= MeanThreshPct * Sum(q)

\* DecisionRepeater._is_monotonic
is_monotonic(q) ==
    \/ \A i \in 1..(Len(q) - 1) : q[i + 1] >= q[i]
    \/ \A i \in 1..(Len(q) - 1) : q[i + 1] <= q[i]

\* the statistical tests of the dispatch that depend on the libraries: the
\* first of them that passes
Tests == {"autocorrelated", "gaussian", "lognormal", "multimodal", "uniform", "none"}

\* A variant of the dispatch test that reassesses at every count from the
\* starting sample on.
reassess_always(c, ss, ta) == c >= ss

\* repeater.py:634-637: the counts at which the dispatch is made
reassess(c, ss, ta) == c >= ss /\ (c - ss) % ta = 0

\* DecisionRepeater.__call__ after the sub-repeaters were invoked: the branch
\* of the dispatch that is taken and the verdict
Dispatch(c, q, ss, ta, mx, last, test) ==
    IF ~reassess(c, ss, ta) THEN [branch |-> "skip", v |-> "continue"]
    ELSE IF is_constant(q) THEN [branch |-> "constant", v |-> "stop"]
    ELSE IF is_monotonic(q) THEN [branch |-> "monotonic", v |-> "stop"]
    ELSE IF test = "autocorrelated" THEN [branch |-> test, v |-> last["BB"]]
    ELSE IF test = "gaussian" THEN [branch |-> test, v |-> last["CI"]]
    ELSE IF test = "lognormal" THEN [branch |-> test, v |-> last["HDI"]]
    ELSE IF test = "multimodal" THEN [branch |-> test, v |-> last["GMM"]]
    ELSE IF test = "uniform" THEN [branch |-> test, v |-> "stop"]
    ELSE IF c >= mx THEN [branch |-> "budget", v |-> "stop"]
    ELSE [branch |-> "none", v |-> "continue"]

\* what the libraries may answer in the invocation that makes the count c
\* and the runtimes q: an answer for each question whose answer is used
LibAnswers(c, q) ==
    LET gmm == rkind \in {"GMM", "Decision"} /\ c > Min(ropts.max - 1, dopts.grid) /\ c < ropts.max
        bb == rkind \in {"BB", "Decision"} /\ Len(q) >= ropts.min /\ Len(q) < ropts.max
        dc == /\ rkind = "Decision"
              /\ reassess(c, dopts.starting_sample, dopts.test_after)
              /\ ~is_constant(q) /\ ~is_monotonic(q)
        ks == rkind = "KS" /\ c >= ropts.min /\ c < ropts.max /\ c \div 2 = 0
    IN  {[fit |-> f, bb |-> b, test |-> t, empty |-> e, branch |-> ""] :
            f \in (IF gmm THEN {"good", "poor"} ELSE {""}),
            b \in (IF bb THEN {"noblock", "far", "close"} ELSE {""}),
            t \in (IF dc THEN Tests ELSE {""}),
            e \in (IF ks THEN {"raise", "nan"} ELSE {""})}

\* repeater(pdata) for a repeater object of each class.  Every sub-repeater
\* of the Decision repeater is invoked with the same RunData as the Decision
\* repeater and holds the same runtimes.
Invoke ==
    /\ pcR = "ask"
    /\ rcount < (MaxReps + 1)
    /\ \E d \in RepInputs : \E l \in LibAnswers(rcount + 1, runtimes \o d) :
          LET c == rcount + 1
              q == runtimes \o d
              mn == ropts.min
              mx == ropts.max
              ks == KSCall(c, q, d, mn, mx, l.empty)
              bb == BBCall(Len(q), mn, mx, prev_means, l.bb)
              last == [k \in SubKinds |->
                         CASE k = "SE" -> SEVerdict(subs.count[k] + 1, q, mn, mx)
                           [] k = "CI" -> CIVerdict(subs.count[k] + 1, q, mn, mx)
                           [] k = "HDI" -> HDIVerdict(subs.count[k] + 1, q, mn, mx)
                           [] k = "BB" -> bb.v
                           [] k = "GMM" -> GMMVerdict(subs.count[k] + 1, mx, dopts.grid, l.fit)]
              dc == Dispatch(c, q, dopts.starting_sample, dopts.test_after, mx, last, l.test)
              v == CASE rkind = "Count" -> CountVerdict(c, rlimit)
                     [] rkind = "SE" -> SEVerdict(c, q, mn, mx)
                     [] rkind = "CI" -> CIVerdict(c, q, mn, mx)
                     [] rkind = "HDI" -> HDIVerdict(c, q, mn, mx)
                     [] rkind = "BB" -> bb.v
                     [] rkind = "GMM" -> GMMVerdict(c, mx, dopts.grid, l.fit)
                     [] rkind = "KS" -> ks.v
                     [] rkind = "Decision" ->
                            IF \E k \in SubKinds : last[k] = "raise" THEN "raise" ELSE dc.v
          IN  /\ rcount' = c
              /\ runtimes' = IF rkind = "KS" THEN ks.r ELSE q
              /\ prev_means' = IF rkind \in {"BB", "Decision"} THEN bb.prev ELSE prev_means
              /\ subs' = IF rkind = "Decision"
                         THEN [count |-> [k \in SubKinds |-> subs.count[k] + 1], last |-> last]
                         ELSE subs
              /\ lib' = [l EXCEPT !.branch = IF rkind = "Decision" THEN dc.branch ELSE ""]
              /\ fed' = Append(fed, d)
              /\ verdict' = v
              /\ IF v = "raise" THEN pcR' = "aborted" /\ failure' = "repeater"
                 ELSE IF v = "continue" THEN pcR' = "ask" /\ failure' = failure
                 ELSE pcR' = "finish" /\ failure' = failure
    /\ UNCHANGED <<chainVars, copies, optVars, dopts, repeats, ropts, start, rkind, rlimit,
                   pdata, nwarm, nresets, nruns, csv, mopts, kids, resets, file, omode, alive>>

\* the repeater objects explored, as their constructors leave them: SE, CI,
\* HDI and their kind as sub-repeaters assert max >= min, BB asserts min > 1,
\* and the starting sample is min(starting_sample, max)
RepInit ==
    /\ ChainIdle
    /\ OptIdle
    /\ copies = 1
    /\ repeats = [ty |-> "int", n |-> 1, s |-> <<>>]
    /\ start = "normal"
    /\ pcR = "ask"
    /\ failure = ""
    /\ rkind \in {"Count", "SE", "CI", "HDI", "BB", "GMM", "KS", "Decision"}
    /\ ropts \in [min : 1..(MaxReps + 1), max : 1..(MaxReps + 1)]
    /\ rkind \in {"SE", "CI", "HDI", "Decision"} => ropts.max >= ropts.min
    /\ rkind \in {"BB", "Decision"} => ropts.min > 1
    /\ rkind \in {"Count", "GMM"} => ropts.min = 1
    /\ rlimit = ropts.max
    /\ dopts \in [starting_sample : 1..MaxReps, test_after : 1..2, grid : {2, DefaultGrid}]
    /\ dopts.starting_sample <= ropts.max
    /\ rkind # "Decision" => (dopts.starting_sample = 1 /\ dopts.test_after = 1)
    /\ rkind \notin {"GMM", "Decision"} => dopts.grid = DefaultGrid
    /\ rcount = 0
    /\ runtimes = <<>>
    /\ verdict = ""
    /\ pdata = NoData
    /\ nwarm = 0
    /\ nresets = 0
    /\ nruns = 0
    /\ csv = <<>>
    /\ mopts = <<>>
    /\ kids = <<>>
    /\ resets = <<>>
    /\ file = <<>>
    /\ omode = "w"
    /\ alive = {}
    /\ subs = [count |-> [k \in SubKinds |-> 0], last |-> [k \in SubKinds |-> "continue"]]
    /\ prev_means = FALSE
    /\ lib = [fit |-> "", bb |-> "", test |-> "", empty |-> "", branch |-> ""]
    /\ fed = <<>>

RepNext == Invoke

SpecRep == RepInit /\ [][RepNext]_vars

\* ------------------------------------------------------------------------
\* Properties of the orchestrator loop and the repeaters
\* ------------------------------------------------------------------------
\* the repeats option is an integer or a digit string: the Count repeater with max = CountK
IsCountOption == repeats.ty = "int" \/ isdigit(repeats.s)
CountK == IF repeats.ty = "int" THEN repeats.n ELSE int(repeats.s)

\* repetitions that log_run saved: each one saves a row of rank 0
Logged == Cardinality({i \in 1..Len(csv) : csv[i].rank = 0})

AtLeastOne(k) == IF k >= 1 THEN k ELSE 1

ConstantSample == \A i, j \in 1..Len(runtimes) : runtimes[i] = runtimes[j]

\* C7: an SE, CI or HDI repeater with min <= max that samples a constant
\* nonzero metric never raises, and from its (min + 1)-th invocation on its
\* verdict is stop.
C7_Original ==
    (rkind \in {"SE", "CI", "HDI"} /\ ropts.min <= ropts.max /\ ConstantSample) =>
        /\ verdict # "raise"
        /\ rcount >= ropts.min + 1 => verdict = "stop"

\* ------------------------------------------------------------------------
\* Option pipeline (options.py)
\* ------------------------------------------------------------------------
\* What the files hold that the pipeline may read: configuration files
\* named with -f, the default sys-spec file, the files of the backends
\* directory, and a previous run's markdown file.  There is no file for
\* the backend local.
FilesOnDisk ==
    {"a.json", "b.yaml", "c.json", "sys_spec.yaml", "prev.md",
     "backends/ssh.yaml", "backends/ssh.json", "backends/mpi.json"}

FileContent(path) ==
    CASE path = "a.json" ->
             With(Dict("ta", Missing, NoList, NoOpts), NoMetrics, "warm", Missing)
      [] path = "b.yaml" ->
             With(Dict("tb", Missing, List(<<"ssh">>), NoOpts), NoMetrics, Missing, "b.yaml")
      [] path = "c.json" ->
             With(Dict(Missing, Missing, List(<<>>), Opts("mpi", Entry("c.json", Missing))),
                  Metric("m1", "c.json"), Missing, Missing)
      [] path = "sys_spec.yaml" ->
             With(Dict("ts", Missing, NoList, NoOpts), NoMetrics, Missing, "sys_spec.yaml")
      [] path = "prev.md" ->
             With(Dict("tr", "fp", List(<<"mpi">>), Opts("mpi", Entry("prev.md", "prev.md"))),
                  Metric("m2", "prev.md"), "normal", Missing)
      [] path = "backends/ssh.yaml" ->
             With(Dict(Missing, Missing, NoList, Opts("ssh", Entry("ssh.yaml", Missing))),
                  Metric("m1", "ssh.yaml"), Missing, Missing)
      [] path = "backends/ssh.json" ->
             Dict(Missing, Missing, NoList, Opts("ssh", Entry("ssh.json", Missing)))
      [] path = "backends/mpi.json" ->
             With(Dict("tm", Missing, NoList,
                       [n \in OptNames |->
                           IF n = "mpi" THEN Entry("mpi.json", Missing)
                           ELSE IF n = "ssh" THEN Entry(Missing, "mpi.json")
                           ELSE NoEntry]),
                  Metric("m2", "mpi.json"), Missing, Missing)

\* the strings given with -j and the dictionaries json.loads makes of them
JsonStrings == {"j1", "j2"}

json_loads(str) ==
    CASE str = "j1" -> Dict("tj", Missing, NoList, NoOpts)
      [] str = "j2" ->
             Dict(Missing, Missing, List(<<"ssh">>), Opts("ssh", Entry(Missing, "j2")))

\* load_config for a YAML or JSON file
load_config(config_file) == FileContent(config_file)

\* ------------------------------------------------------------------------
\* The markdown file: Logger.__init__ and save_md write it,
\* process_previous_options reads it.  The file is a sequence of lines; a
\* line of JSON text holds one key (the path from the top of the
\* dictionary) with its value, or opens a dictionary.
\* ------------------------------------------------------------------------
JsonLine(kind, path, str, list) == [kind |-> kind, path |-> path, s |-> str, l |-> list]
Text(str) == JsonLine("text", <<>>, str, <<>>)

\* "~~~" stands for the three backquotes of a code fence.
\* line.strip() as far as the comparisons of process_previous_options go: a
\* line of JSON text starts with a quote or a bracket
strip(line) == IF line.kind = "text" THEN line.s ELSE "<json>"

\* the keys of a dictionary, in the order json.dumps writes them
KeySeq(top) == IF top = "metrics" THEN <<"m1", "m2">> ELSE <<"local", "ssh", "mpi">>

\* the line of a key with a string value, nothing for a key that is not there
KeyLine(path, str) == IF str = Missing THEN <<>> ELSE <<JsonLine("scalar", path, str, <<>>)>>

RECURSIVE EntryLines(_, _)
EntryLines(bo, i) ==
    IF i > Len(KeySeq("backend_options")) THEN <<>>
    ELSE LET n == KeySeq("backend_options")[i]
         IN  (IF bo[n].set
              THEN <<JsonLine("open", <<"backend_options", n>>, "", <<>>)>>
                   \o KeyLine(<<"backend_options", n, "run">>, bo[n].run)
                   \o KeyLine(<<"backend_options", n, "reset">>, bo[n].reset)
              ELSE <<>>)
             \o EntryLines(bo, i + 1)

RECURSIVE MetricLines(_, _)
MetricLines(mt, i) ==
    IF i > Len(KeySeq("metrics")) THEN <<>>
    ELSE KeyLine(<<"metrics", KeySeq("metrics")[i]>>, mt[KeySeq("metrics")[i]])
         \o MetricLines(mt, i + 1)

\* json.dumps(d, indent=2)
json_dumps(d) ==
    <<Text("{")>>
    \o KeyLine(<<"task">>, d.task)
    \o KeyLine(<<"function">>, d.function)
    \o (IF d.backends.set THEN <<JsonLine("list", <<"backends">>, "", d.backends.v)>> ELSE <<>>)
    \o EntryLines(d.backend_options, 1)
    \o MetricLines(d.metrics, 1)
    \o KeyLine(<<"start">>, d.start)
    \o KeyLine(<<"sys_spec_commands">>, d.sys_spec_commands)
    \o <<Text("}")>>

\* A variant of options_filtered that leaves out the metrics as well.
options_filtered_no_metrics(options) ==
    [options EXCEPT !.sys_spec_commands = Missing, !.metrics = NoMetrics]

\* logger.py:68: the options without sys_spec_commands
options_filtered(options) == [options EXCEPT !.sys_spec_commands = Missing]

\* logger.py:59-70: the preamble, with the line of the git hash if git ran
preamble(options, git) ==
    <<Text("This file describes the fields")>>
    \o (IF git THEN <<Text("The source code version used was from git hash")>> ELSE <<>>)
    \o <<Text(""), Text("## Runtime options"), Text(""), Text("~~~json")>>
    \o json_dumps(options_filtered(options))
    \o <<Text("~~~")>>

\* logger.py:154-171: the file save_md writes
save_md(options, git) ==
    <<Text("Experiment completed"), Text("")>>
    \o preamble(options, git)
    \o <<Text(""), Text("## Field description"), Text(""), Text("  * repeat (int)"),
         Text(""), Text("## System configuration"), Text(""), Text("~~~json")>>
    \o <<Text("{"), JsonLine("scalar", <<"system", "hostname">>, "host", <<>>), Text("}")>>
    \o <<Text("~~~")>>

\* options.py:207-217: the lines the loop copies into jstr
RECURSIVE CopyLines(_, _)
CopyLines(lines, copy_now) ==
    IF lines = <<>> THEN <<>>
    ELSE IF strip(Head(lines)) = "## Runtime options" THEN CopyLines(Tail(lines), TRUE)
    ELSE IF strip(Head(lines)) = "## Field description" THEN <<>>
    ELSE IF copy_now
    THEN IF strip(Head(lines)) \in {"~~~json", "~~~"} THEN CopyLines(Tail(lines), copy_now)
         ELSE <<Head(lines)>> \o CopyLines(Tail(lines), copy_now)
    ELSE CopyLines(Tail(lines), copy_now)

\* json.loads accepts the text: one dictionary in braces, blank lines around
JsonValid(lines) ==
    LET body == SelectSeq(lines, LAMBDA ln : strip(ln) # "")
    IN  /\ Len(body) >= 2
        /\ strip(body[1]) = "{"
        /\ strip(body[Len(body)]) = "}"
        /\ \A i \in 2..(Len(body) - 1) : body[i].kind # "text"

\* the dictionary d with the key of one line of JSON text
SetKey(d, ln) ==
    LET p == ln.path
    IN  IF ln.kind = "list" THEN [d EXCEPT !.backends = List(ln.l)]
        ELSE IF ln.kind = "open"
        THEN [d EXCEPT !.backend_options[p[2]].set = TRUE]
        ELSE IF ln.kind # "scalar" THEN d
        ELSE IF p = <<"task">> THEN [d EXCEPT !.task = ln.s]
        ELSE IF p = <<"function">> THEN [d EXCEPT !.function = ln.s]
        ELSE IF p = <<"start">> THEN [d EXCEPT !.start = ln.s]
        ELSE IF p = <<"sys_spec_commands">> THEN [d EXCEPT !.sys_spec_commands = ln.s]
        ELSE IF p[1] = "metrics" THEN [d EXCEPT !.metrics[p[2]] = ln.s]
        ELSE IF p[3] = "run" THEN [d EXCEPT !.backend_options[p[2]].run = ln.s]
        ELSE [d EXCEPT !.backend_options[p[2]].reset = ln.s]

\* json.loads of lines of JSON text
RECURSIVE json_loads_lines(_)
json_loads_lines(lines) ==
    IF lines = <<>> THEN EmptyCfg
    ELSE SetKey(json_loads_lines(SubSeq(lines, 1, Len(lines) - 1)), lines[Len(lines)])

\* the lines of a markdown file: the one the first experiment wrote, or that
\* of an earlier experiment with the options FileContent gives
MdLines(filename) ==
    IF filename = "out.md" THEN md ELSE save_md(FileContent(filename), TRUE)

\* process_previous_options: the JSON of the section "## Runtime options"
process_previous_options(filename) == json_loads_lines(CopyLines(MdLines(filename), FALSE))

\* merge on one key with a scalar or a list: a[key] = b[key] for a key of b
MergeValue(x, y, yThere) == IF yThere THEN y ELSE x

\* merge on one entry of backend_options: key by key if both are there
MergeEntry(x, y) ==
    IF ~y.set THEN x
    ELSE IF ~x.set THEN y
    ELSE [set |-> TRUE,
          run |-> MergeValue(x.run, y.run, y.run # Missing),
          reset |-> MergeValue(x.reset, y.reset, y.reset # Missing)]

\* A variant of merge in which the values of a are kept.
merge_first_wins(a, b) ==
    [task |-> MergeValue(b.task, a.task, a.task # Missing),
     function |-> MergeValue(b.function, a.function, a.function # Missing),
     backends |-> MergeValue(b.backends, a.backends, a.backends.set),
     backend_options |->
         [n \in OptNames |-> MergeEntry(b.backend_options[n], a.backend_options[n])],
     metrics |->
         [m \in MetricNames |-> MergeValue(b.metrics[m], a.metrics[m], a.metrics[m] # Missing)],
     start |-> MergeValue(b.start, a.start, a.start # Missing),
     sys_spec_commands |->
         MergeValue(b.sys_spec_commands, a.sys_spec_commands, a.sys_spec_commands # Missing)]

\* merge(a, b): the values of b override those of a, dictionaries are
\* merged recursively
merge(a, b) ==
    [task |-> MergeValue(a.task, b.task, b.task # Missing),
     function |-> MergeValue(a.function, b.function, b.function # Missing),
     backends |-> MergeValue(a.backends, b.backends, b.backends.set),
     backend_options |->
         [n \in OptNames |-> MergeEntry(a.backend_options[n], b.backend_options[n])],
     metrics |->
         [m \in MetricNames |-> MergeValue(a.metrics[m], b.metrics[m], b.metrics[m] # Missing)],
     start |-> MergeValue(a.start, b.start, b.start # Missing),
     sys_spec_commands |->
         MergeValue(a.sys_spec_commands, b.sys_spec_commands, b.sys_spec_commands # Missing)]

\* the flags of the command line: -f, -j, --repro, -t and -b with a value,
\* -c and -w without
ArgItems ==
    {[flag |-> "-f", val |-> f] : f \in {"a.json", "b.yaml", "c.json"}}
    \cup {[flag |-> "-j", val |-> j] : j \in JsonStrings}
    \cup {[flag |-> "--repro", val |-> "prev.md"]}
    \cup {[flag |-> "-t", val |-> t] : t \in {"", "tc"}}
    \cup {[flag |-> "-b", val |-> b] : b \in {"ssh", "mpi"}}
    \cup {[flag |-> f, val |-> ""] : f \in {"-c", "-w"}}

\* the values given with one flag, in command-line order
FlagValues(av, f) ==
    LET q == SelectSeq(av, LAMBDA it : it.flag = f)
    IN  [i \in 1..Len(q) |-> q[i].val]

\* argparse's default action: the last value given, None if there is none
Store(av, f) ==
    LET q == FlagValues(av, f)
    IN  IF q = <<>> THEN None ELSE q[Len(q)]

\* parse_cmdline: -f and -b append, the other flags store
parse_cmdline(av) ==
    [config |-> FlagValues(av, "-f"),
     json |-> Store(av, "-j"),
     repro |-> Store(av, "--repro"),
     task |-> Store(av, "-t"),
     backend |-> FlagValues(av, "-b"),
     cold |-> FlagValues(av, "-c") # <<>>,
     warm |-> FlagValues(av, "-w") # <<>>]

\* Python's truth value of a string option
Truthy(x) == x # None /\ x # ""

\* A variant of the backends step in which -b replaces the list.
cmdline_backends_replace(backends, flags) ==
    LET b == IF flags # <<>> THEN flags ELSE IF backends.set THEN backends.v ELSE <<>>
    IN  IF b = <<>> THEN <<"local">> ELSE b

\* options.py:283-289: the -b values are added to the list cfg has, and
\* an empty list becomes ["local"]
cmdline_backends(backends, flags) ==
    LET b == (IF backends.set THEN backends.v ELSE <<>>) \o flags
    IN  IF b = <<>> THEN <<"local">> ELSE b

\* process_cmdline_options, for the keys function, task, start and backends
process_cmdline_options(c, args, fn) ==
    LET function == IF fn # <<>> THEN fn[1] ELSE c.function
        task == IF Truthy(args.task) THEN args.task
                ELSE IF c.task # Missing THEN c.task
                ELSE IF function # Missing THEN function
                ELSE None
        st == IF args.cold THEN "cold"
              ELSE IF args.warm THEN "warm"
              ELSE IF c.start # Missing THEN c.start
              ELSE "normal"
    IN  With(Dict(task, function, List(cmdline_backends(c.backends, args.backend)),
                  c.backend_options),
             c.metrics, st, c.sys_spec_commands)

\* os.path.join(backends_dir, backend + ext)
candidate(backend, ext) ==
    CASE backend = "ssh" /\ ext = ".yaml" -> "backends/ssh.yaml"
      [] backend = "ssh" /\ ext = ".json" -> "backends/ssh.json"
      [] backend = "mpi" /\ ext = ".yaml" -> "backends/mpi.yaml"
      [] backend = "mpi" /\ ext = ".json" -> "backends/mpi.json"
      [] backend = "local" /\ ext = ".yaml" -> "backends/local.yaml"
      [] backend = "local" /\ ext = ".json" -> "backends/local.json"

\* the file auto_load_backend_config finds for a backend: .yaml first,
\* then .json, "" if there is neither
config_path(backend) ==
    IF candidate(backend, ".yaml") \in FilesOnDisk THEN candidate(backend, ".yaml")
    ELSE IF candidate(backend, ".json") \in FilesOnDisk THEN candidate(backend, ".json")
    ELSE ""

\* A variant of auto_load_backend_config without the test for options
\* that are already there.
auto_load_backend_config_always(backend, c) ==
    IF config_path(backend) # ""
    THEN [cfg |-> merge(c, load_config(config_path(backend))), file |-> config_path(backend)]
    ELSE [cfg |-> c, file |-> ""]

\* auto_load_backend_config: the new cfg and the file merged ("" if none)
auto_load_backend_config(backend, c) ==
    IF c.backend_options[backend].set THEN [cfg |-> c, file |-> ""]
    ELSE IF config_path(backend) # ""
    THEN [cfg |-> merge(c, load_config(config_path(backend))), file |-> config_path(backend)]
    ELSE [cfg |-> c, file |-> ""]

\* ------------------------------------------------------------------------
\* process_options, one action per source and per auto-loaded backend
\* ------------------------------------------------------------------------
OptUnchangedRest ==
    UNCHANGED <<chain, copies, override, pcC, idx, cmd, cmds, calls, runVars, repVars,
                md, orig, pass>>

\* options.py:320-321
OptRepro ==
    /\ pcO = "repro"
    /\ LET args == parse_cmdline(argv)
           text == CopyLines(MdLines(args.repro), FALSE)
       IN  IF args.repro = None
           THEN cfg' = EmptyCfg /\ pcO' = "sysspec"
           ELSE IF JsonValid(text)
           THEN cfg' = process_previous_options(args.repro) /\ pcO' = "sysspec"
           ELSE cfg' = cfg /\ pcO' = "raise"
    /\ UNCHANGED <<argv, func, sysspec, fi, ai, blist, loads>>
    /\ OptUnchangedRest

\* options.py:228-230; the file sys_spec.yaml is there or not
OptSysSpec ==
    /\ pcO = "sysspec"
    /\ \E found \in {"", "sys_spec.yaml"} :
          /\ sysspec' = found
          /\ cfg' = IF found \in FilesOnDisk THEN merge(cfg, load_config(found)) ELSE cfg
    /\ pcO' = "files"
    /\ fi' = 1
    /\ UNCHANGED <<argv, func, ai, blist, loads>>
    /\ OptUnchangedRest

\* options.py:233-238, one -f file
OptFile ==
    /\ pcO = "files"
    /\ LET args == parse_cmdline(argv)
       IN  /\ fi <= Len(args.config)
           /\ cfg' = merge(cfg, load_config(args.config[fi]))
    /\ fi' = fi + 1
    /\ UNCHANGED <<argv, func, sysspec, pcO, ai, blist, loads>>
    /\ OptUnchangedRest

\* options.py:240-241
OptJson ==
    /\ pcO = "files"
    /\ LET args == parse_cmdline(argv)
       IN  /\ fi > Len(args.config)
           /\ cfg' = IF Truthy(args.json) THEN merge(cfg, json_loads(args.json)) ELSE cfg
    /\ pcO' = "cmdline"
    /\ UNCHANGED <<argv, func, sysspec, fi, ai, blist, loads>>
    /\ OptUnchangedRest

\* options.py:322 and the head of the loop at 327
OptCmdline ==
    /\ pcO = "cmdline"
    /\ \E fn \in {<<>>, <<"fn">>} :
          /\ func' = fn
          /\ cfg' = process_cmdline_options(cfg, parse_cmdline(argv), fn)
    /\ blist' = cfg'.backends.v
    /\ ai' = 1
    /\ pcO' = "autoload"
    /\ UNCHANGED <<argv, sysspec, fi, loads>>
    /\ OptUnchangedRest

\* options.py:327-328, one backend
AutoLoad ==
    /\ pcO = "autoload"
    /\ ai <= Len(blist)
    /\ LET r == auto_load_backend_config(blist[ai], cfg)
       IN  /\ cfg' = r.cfg
           /\ loads' = Append(loads, [name |-> blist[ai],
                                      had |-> cfg.backend_options[blist[ai]].set,
                                      file |-> r.file])
    /\ ai' = ai + 1
    /\ UNCHANGED <<argv, func, sysspec, pcO, fi, blist>>
    /\ OptUnchangedRest

\* options.py:331-341
Sanity ==
    /\ pcO = "autoload"
    /\ ai > Len(blist)
    /\ pcO' = IF cfg.function = Missing \/ cfg.function = "" THEN "raise" ELSE "done"
    /\ UNCHANGED <<argv, func, sysspec, cfg, fi, ai, blist, loads>>
    /\ OptUnchangedRest

\* the command lines explored: each of -j, --repro and -t at most once,
\* and one of -c and -w at most
ArgLists ==
    {av \in UNION {[1..n -> ArgItems] : n \in 0..MaxArgs} :
        /\ \A f \in {"-j", "--repro", "-t"} : Len(FlagValues(av, f)) <= 1
        /\ Len(FlagValues(av, "-c")) + Len(FlagValues(av, "-w")) <= 1}

OptInit ==
    /\ ChainIdle
    /\ RunIdle
    /\ RepIdle
    /\ copies = 1
    /\ argv \in ArgLists
    /\ func = <<>>
    /\ sysspec = ""
    /\ cfg = EmptyCfg
    /\ pcO = "repro"
    /\ fi = 0
    /\ ai = 0
    /\ blist = <<>>
    /\ loads = <<>>
    /\ md = <<>>
    /\ orig = EmptyCfg
    /\ pass = 1

\* logger.py:59-70 and 142-171: the experiment ends and its markdown file
\* is written, with the options as they are after process_options
WriteMd ==
    /\ pcO = "done"
    /\ pass = 1
    /\ \E git \in BOOLEAN : md' = save_md(cfg, git)
    /\ orig' = cfg
    /\ pcO' = "written"
    /\ UNCHANGED <<argv, func, sysspec, cfg, fi, ai, blist, loads, pass>>
    /\ UNCHANGED <<chain, copies, override, pcC, idx, cmd, cmds, calls, runVars, repVars>>

\* the launcher is started again with --repro on that file and no other flag
ReproStart ==
    /\ pcO = "written"
    /\ argv' = <<[flag |-> "--repro", val |-> "out.md"]>>
    /\ pass' = 2
    /\ func' = <<>>
    /\ sysspec' = ""
    /\ cfg' = EmptyCfg
    /\ pcO' = "repro"
    /\ fi' = 0
    /\ ai' = 0
    /\ blist' = <<>>
    /\ loads' = <<>>
    /\ UNCHANGED <<md, orig>>
    /\ UNCHANGED <<chain, copies, override, pcC, idx, cmd, cmds, calls, runVars, repVars>>

OptNext ==
    OptRepro \/ OptSysSpec \/ OptFile \/ OptJson \/ OptCmdline \/ AutoLoad \/ Sanity
    \/ WriteMd \/ ReproStart

SpecOpts == OptInit /\ [][OptNext]_vars

\* ------------------------------------------------------------------------
\* Properties of the option pipeline
\* ------------------------------------------------------------------------
\* the explicit sources have been merged and no backend is auto-loaded yet
ExplicitMerged == pcO = "autoload" /\ ai = 1

\* the dictionaries of the repro, sys-spec, -f and -j sources, lowest
\* priority first
Sources ==
    LET contents(q) == [i \in 1..Len(q) |-> FileContent(q[i])]
        inline(q) == [i \in 1..Len(q) |-> json_loads(q[i])]
        previous(q) ==
            [i \in 1..Len(q) |-> IF q[i] = "out.md" THEN options_filtered(orig)
                                 ELSE FileContent(q[i])]
    IN  previous(FlagValues(argv, "--repro"))
        \o (IF sysspec \in FilesOnDisk THEN <<FileContent(sysspec)>> ELSE <<>>)
        \o contents(FlagValues(argv, "-f"))
        \o inline(FlagValues(argv, "-j"))

\* the task of the last source that sets it, Missing if none does
RECURSIVE LastTask(_)
LastTask(q) ==
    IF q = <<>> THEN Missing
    ELSE IF q[Len(q)].task # Missing THEN q[Len(q)].task
    ELSE LastTask(SubSeq(q, 1, Len(q) - 1))

\* the backends list of the last source that has one, empty if none has
RECURSIVE LastBackends(_)
LastBackends(q) ==
    IF q = <<>> THEN <<>>
    ELSE IF q[Len(q)].backends.set THEN q[Len(q)].backends.v
    ELSE LastBackends(SubSeq(q, 1, Len(q) - 1))

TaskFlag == FlagValues(argv, "-t")

\* how many of the repro, sys-spec, -f and -j sources set task
TaskSources == Cardinality({i \in 1..Len(Sources) : Sources[i].task # Missing})

C9_BackendsList ==
    LET c == LastBackends(Sources) \o FlagValues(argv, "-b")
    IN  ExplicitMerged =>
            /\ cfg.backends.set
            /\ c # <<>> => cfg.backends.v = c
            /\ c = <<>> => cfg.backends.v = <<"local">>

\* a later source's list has replaced an earlier one's and a -b value follows it
C9_Witness ==
    /\ ExplicitMerged
    /\ FlagValues(argv, "--repro") = <<"prev.md">>
    /\ FlagValues(argv, "-f") = <<"b.yaml">>
    /\ FlagValues(argv, "-b") = <<"mpi">>
    /\ cfg.backends.v = <<"ssh", "mpi">>

\* the backends an explicit source has options for
ExplicitlyConfigured ==
    {n \in OptNames : \E i \in 1..Len(Sources) : Sources[i].backend_options[n].set}

\* C10: the auto-load loop takes the names of the backends list in order;
\* for a name with a file in the backends directory (.yaml before .json)
\* that file is merged if and only if backend_options has no entry for the
\* name at that moment, nothing is merged for a name without a file, and a
\* backend that an explicit source configured is never auto-loaded.
C10_AutoLoadIffNoEntry ==
    /\ Len(loads) <= Len(blist)
    /\ \A i \in 1..Len(loads) :
          LET e == loads[i]
          IN  /\ e.name = blist[i]
              /\ e.file \in {"", config_path(e.name)}
              /\ config_path(e.name) # "" => ((e.file # "") <=> ~e.had)
              /\ e.name \in ExplicitlyConfigured => e.file = ""

\* mpi is auto-loaded, and ssh, which only mpi's file configured, is then skipped
\* although it has a file
C10_Witness ==
    /\ pcO = "done"
    /\ ExplicitlyConfigured = {}
    /\ Len(loads) = 2
    /\ loads[1] = [name |-> "mpi", had |-> FALSE, file |-> "backends/mpi.json"]
    /\ loads[2] = [name |-> "ssh", had |-> TRUE, file |-> ""]

\* C11: when the options an experiment wrote under "## Runtime options" are
\* read back with --repro and no other flag, the options of the second run
\* have the same backends, metrics, function and start as those of the first.
C11_ReproRoundTrip ==
    (pass = 2 /\ pcO = "done" /\ func = <<>>) =>
        /\ cfg.backends = orig.backends
        /\ cfg.metrics = orig.metrics
        /\ cfg.function = orig.function
        /\ cfg.start = orig.start

\* the first experiment had two backends, one of them auto-loaded with its
\* metric, a metric of an earlier experiment and a warm start from -w, and
\* the second run has them
C11_Witness ==
    /\ pass = 2
    /\ pcO = "done"
    /\ func = <<>>
    /\ orig.backends.v = <<"mpi", "ssh">>
    /\ orig.metrics = [m \in MetricNames |-> IF m = "m1" THEN "ssh.yaml" ELSE "prev.md"]
    /\ orig.start = "warm"
    /\ cfg.backends = orig.backends
    /\ cfg.metrics = orig.metrics

\* ------------------------------------------------------------------------
\* Properties of Launcher.run, the metrics and the rows logged
\* ------------------------------------------------------------------------
\* a child that Launcher.run has waited for ended with status st
Waited(st) == \E i \in 1..Len(kids) : kids[i].st = st

\* the rows of the children that exited with status 0
RECURSIVE RowsOfOk(_)
RowsOfOk(ks) ==
    IF ks = <<>> THEN 0
    ELSE (IF Head(ks).st = "ok" THEN Len(Head(ks).rows) ELSE 0)
         + RowsOfOk(Tail(ks))

\* the repetition in progress has no row in the CSV (its rows would carry
\* the count of the repeater calls made so far)
NoRowOfRepetition == \A j \in 1..Len(csv) : csv[j].repeat # rcount

\* C12: when a child that Launcher.run waits for exits with status 127, the
\* run raises: the program is aborted by that step, with no row logged for
\* the repetition and no call of the repeater, and nothing follows.
C12_NotFoundRaises ==
    [][/\ (kids' # kids /\ kids' # <<>> /\ kids'[Len(kids')].st = "notfound") =>
            /\ pcR' = "aborted"
            /\ failure' = "notfound"
            /\ csv' = csv
            /\ rcount' = rcount
            /\ NoRowOfRepetition'
       /\ failure # "notfound"]_vars

\* the second copy of the second repetition exits with status 127
C12_Witness ==
    /\ pcR = "aborted"
    /\ failure = "notfound"
    /\ nruns = 2
    /\ Len(kids) = 2
    /\ kids[2].st = "notfound"
    /\ Logged = 1
    /\ rcount = 1

\* C13 as stated: a copy whose child fails or is killed on timeout
\* contributes no row, so the RunData holds the rows of the children that
\* exited with status 0 and no others.
C13_Original ==
    pcR \in {"warming", "running", "log"} => Len(pdata.outer) = RowsOfOk(kids)

\* C14 as stated: when the wait for any child of a main-loop run exceeds the
\* timeout, the run returns no result and the orchestrator aborts.
C14_Original ==
    (nruns >= 1 /\ pcR # "running" /\ Waited("timeout")) => pcR = "aborted"

\* C15 as stated: when every copy of a main-loop run exits with a non-zero
\* status other than 127, the orchestrator aborts and logs nothing.
C15_Original ==
    (/\ nruns >= 1
     /\ Len(kids) = Len(cmds)
     /\ \A i \in 1..Len(kids) : kids[i].st = "fail") => pcR = "aborted"

\* the metric names of a row
RowNames(row) == {k \in PerfKeys : row[k] # Missing}

\* the numbers of values the extract commands find for the metrics of one
\* child: one "NA" for an extraction that fails
ValueCounts(mo, ch) ==
    {IF ch.n[m] = 0 THEN 1 ELSE ch.n[m] :
         m \in {x \in NativeNames : \E i \in 1..Len(mo) : mo[i] = x}}
    \cup (IF \A i \in 1..Len(mo) : mo[i] # "auto" THEN {}
          ELSE IF ch.auto = <<>> THEN {1}
          ELSE {Cardinality({i \in 1..Len(ch.auto) : ch.auto[i] = m}) :
                    m \in {ch.auto[i] : i \in 1..Len(ch.auto)}})

BadLine(ch) == \E i \in 1..Len(ch.auto) : ch.auto[i] = "bad"

NameSetsDiffer ==
    \E i, j \in 1..Len(kids) :
        /\ kids[i].rows # <<>>
        /\ kids[j].rows # <<>>
        /\ RowNames(kids[i].rows[1]) # RowNames(kids[j].rows[1])

\* C17: the rows of a RunData are saved only if every metric has exactly
\* one value per outer_time entry; when the copies have different sets of
\* metric names, log_run ends in a fatal error and saves no row.
C17_OneValuePerRow ==
    [][/\ (pcR = "log" /\ csv' # csv) =>
            \A k \in user_metrics(pdata) : Len(pdata.perf[k]) = Len(pdata.outer)
       /\ (pcR = "log" /\ NameSetsDiffer) =>
            (pcR' = "aborted" /\ failure' \in {"index", "assert"} /\ csv' = csv)]_vars

\* one copy reported m1 and the other m2, and nothing was saved
C17_Witness ==
    /\ pcR = "aborted"
    /\ failure = "index"
    /\ pdata.perf["m1"] = <<"v">>
    /\ pdata.perf["m2"] = <<"v">>
    /\ Len(pdata.outer) = 2
    /\ csv = <<>>

\* C18 as stated: the rows of the k-th repetition carry repeat = k,
\* concurrency = copies and rank = 0, 1, ... in order.
C18_Original ==
    \A i \in 1..Len(csv) :
        /\ csv[i].repeat = Cardinality({j \in 1..i : csv[j].rank = 0})
        /\ csv[i].concurrency = copies
        /\ csv[i].rank = (IF i = 1 \/ csv[i].repeat # csv[i - 1].repeat THEN 0
                          ELSE csv[i - 1].rank + 1)

\* C19: with a cold start every launcher of the chain has been reset, in
\* chain order, in a round of its own before each run of the main loop,
\* the first included; with a warm or normal start nothing is ever reset.
C19_ColdResets ==
    [][/\ nruns' = nruns + 1 =>
            IF start = "cold" THEN pcR = "run" /\ resets = chain /\ nresets = nruns + 1
            ELSE nresets = 0 /\ resets = <<>>
       /\ nresets' # nresets => start = "cold"]_vars

\* the second run of a cold experiment on a chain of two launchers
C19_Witness ==
    /\ start = "cold"
    /\ Len(chain) = 2
    /\ pcR = "running"
    /\ nruns = 2
    /\ nresets = 2
    /\ resets = chain

\* C20: with a warm start the commands are run once before the main loop
\* and the result is dropped: nothing is logged and the repeater is not
\* called for it, so a finished experiment has as many repetitions in the
\* CSV as the repeater counted; with another start there is no warm-up.
C20_WarmupOnce ==
    /\ nwarm = (IF start = "warm" /\ pcR \notin {"factory", "warm"}
                   /\ ~(nruns = 0 /\ failure \in {"factory", "assert"})
                THEN 1 ELSE 0)
    /\ nruns = 0 => (csv = <<>> /\ rcount = 0 /\ runtimes = <<>>)
    /\ pcR = "done" => (Logged = rcount /\ rcount = nruns)

\* a warm experiment of two repetitions has finished
C20_Witness ==
    /\ start = "warm"
    /\ pcR = "done"
    /\ nwarm = 1
    /\ nruns = 2
    /\ Logged = 2
    /\ rcount = 2

\* ------------------------------------------------------------------------
\* Properties of the auto-load step
\* ------------------------------------------------------------------------
\* the properties of metric m in the last source that has it, Missing if none has
RECURSIVE LastMetric(_, _)
LastMetric(q, m) ==
    IF q = <<>> THEN Missing
    ELSE IF q[Len(q)].metrics[m] # Missing THEN q[Len(q)].metrics[m]
    ELSE LastMetric(SubSeq(q, 1, Len(q) - 1), m)

\* C30 as stated: auto-loading leaves every key that an explicit source has
\* set as it was, so the options returned have the task of the -t flag and
\* the metrics of the explicit sources.
C30_Original ==
    (pcO = "done" /\ pass = 1) =>
        /\ (TaskFlag # <<>> /\ TaskFlag[1] # "") => cfg.task = TaskFlag[1]
        /\ \A m \in MetricNames :
               LastMetric(Sources, m) # Missing => cfg.metrics[m] = LastMetric(Sources, m)

\* ------------------------------------------------------------------------
\* Properties of the host macros
\* ------------------------------------------------------------------------
\* C27 as stated: $HOSTk expands to the k-th host whatever the copy, so a
\* command of a chain with the backend whose template names the last host
\* holds that host, and no command holds a host followed by the digit k.
C27_Original ==
    (pcC = "done" /\ override = <<>>) =>
        \A i \in 1..Len(cmds) :
            /\ (\E j \in 1..Len(chain) : chain[j] = "pin") =>
                   Contains(cmds[i], HostTok(NumHosts - 1))
            /\ \A j \in 1..Len(cmds[i]) : cmds[i][j].t # "digit"

\* ------------------------------------------------------------------------
\* Properties of the CSV file
\* ------------------------------------------------------------------------
\* the rows s begins with the rows q
IsPrefix(q, s) == Len(q) <= Len(s) /\ SubSeq(s, 1, Len(q)) = q

\* C21: a step of log_run that removes rows of the file is the one of the
\* first repetition, with the mode w; in the mode a every row of the file
\* stays where it is; every step puts exactly the rows of its repetition at
\* the end, so that the file ends with the rows of all the repetitions, after
\* the rows it held before when the experiment began in the mode a and after
\* nothing otherwise.
C21_FirstTruncatesRestAppend ==
    [][/\ ~IsPrefix(file, file') => (rcount = 0 /\ csv = <<>> /\ omode = "w")
       /\ csv # <<>> => omode = "a"
       /\ omode = "a" => IsPrefix(file, file')
       /\ csv' # csv =>
            /\ IsPrefix(csv, csv')
            /\ file' = (IF omode = "a" THEN file ELSE <<>>) \o SubSeq(csv', Len(csv) + 1, Len(csv'))
            /\ omode' = "a"
       /\ (pcR = "log" /\ pcR' = "ask") => csv' # csv]_vars

\* a second repetition was saved into a file that held a row of a former
\* experiment, and that row is still there
C21_Witness ==
    /\ Len(file) > Len(csv)
    /\ file[1] = OldRow
    /\ \E i \in 1..Len(file) : file[i].repeat = 1 /\ file[i].outer_time # 0

\* ------------------------------------------------------------------------
\* Properties of the concurrent copies
\* ------------------------------------------------------------------------
\* C23 as stated: the outer time of a copy is the time to its own
\* completion, so a copy that completes before an earlier-indexed copy has an
\* outer time below the completion time of that earlier copy.
C23_Original ==
    (pcR = "log" /\ mopts = <<>> /\ Len(pdata.outer) = Len(kids)) =>
        \A i, j \in 1..Len(kids) :
            (i < j /\ kids[j].fin < kids[i].fin) => pdata.outer[j] < kids[i].fin

\* C24 as stated: when Launcher.run gives up on the timeout with children
\* left, none of them is running once it has returned, and the result holds
\* no rows.
C24_Original ==
    (pcR = "aborted" /\ failure = "none") => (alive = {} /\ pdata = NoData)

\* ------------------------------------------------------------------------
\* Properties of the repeater objects
\* ------------------------------------------------------------------------
RECURSIVE Concat(_)
Concat(qs) == IF qs = <<>> THEN <<>> ELSE Head(qs) \o Concat(Tail(qs))

\* C22 as stated: after k invocations of a repeater of any kind its count is
\* k and its sample is the concatenation, in the order of the invocations, of
\* the metric values of the k RunData.
C22_Original ==
    /\ rcount = Len(fed)
    /\ runtimes = Concat(fed)

\* the invocations of the Gaussian-mixture repeater after its warm-up and
\* before its max
GMMJudged ==
    /\ rkind = "GMM"
    /\ rcount > Min(ropts.max - 1, dopts.grid)
    /\ rcount < ropts.max

C28_Original ==
    (rkind \in {"SE", "CI", "HDI", "KS", "GMM"} /\ 1 <= ropts.min /\ ropts.min <= ropts.max) =>
        /\ verdict # "raise"
        /\ rcount <= ropts.max
        /\ rcount = ropts.max => verdict = "stop"

\* C29 as stated: the Decision repeater returns stop at its max-th invocation
\* at the latest, whatever max, the starting sample and test_after are.
C29_Original ==
    rkind = "Decision" =>
        /\ rcount <= ropts.max
        /\ rcount = ropts.max => verdict = "stop"

====
